---- MODULE Spec2Model ----
(***************************************************************************)
(* SharedPool<T> of object-pool.h: a std::stack of idle resources, and the *)
(* leases (ptrType, a unique_ptr with a std::function deleter) Acquire()   *)
(* hands out, whose deleter pushes the resource back with this->Add.       *)
(*                                                                         *)
(* The client code that owns pools and lease handles is any sequence of    *)
(* the operations the class and its lease type offer: Add, Acquire, Empty, *)
(* Size, ~SharedPool, and on a handle its default and move construction,   *)
(* move assignment, reset(), reset(pointer), release(), swap, the call of  *)
(* and the assignment to get_deleter(), and destruction.                   *)
(***************************************************************************)
EXTENDS Integers, Sequences, FiniteSets, TLC

\* ---------------------------------------------------------------- bounds
NumPools == 2
NumRes == 2
NumHandles == 2
NumThreads == 2
MaxExtra == 1      \* pointers to resources beyond the one that owns each

Pools == 1 .. NumPools
Res == 1 .. NumRes
Handles == 1 .. NumHandles
Threads == 1 .. NumThreads

\* nullptr, and the empty std::function / no pool
Null == 0
NoPool == 0
\* a pointer value that is no resource of the program (read through an
\* invalid reference)
Wild == NumRes + 1
Ptrs == Res \cup {Wild}

VARIABLES
    m_pool,   \* [Pools -> Seq(Res)]: SharedPool::m_pool, top of stack last
    alive,    \* [Pools -> BOOLEAN]: between SharedPool() and ~SharedPool()
    lease,    \* [Handles -> handle]: the ptrType objects of the client
    status,   \* "running"; "aborted": assert failed; after an undefined
              \* operation "crashed": it killed the process, or "undefined":
              \* it returned (the model follows the execution no further)
    home,     \* history: the pool the client handed each resource to by
              \* Add, NoPool if none
    reins,    \* history: deleter runs on a resource since it was acquired
    epoch,    \* history: the acquire-then-release round under way per pool
    raw,      \* the resources the client holds by the raw pointer that
              \* release() on a handle returned
    freed,    \* the resources that were deleted
    mutex,    \* the clients' lock around the pool: NoThread or its holder
    pc,       \* [Threads -> step] of each borrower thread
    tmp       \* [Threads -> pointer]: Acquire's local tmp / release's ptr

\* the other classes of the repository, each used by its own specification
VARIABLES
    exec,         \* [Workers -> state]: the threads of execution started by
                  \* std::thread: "none", "running", "done", "joined"
    thr,          \* [Objs -> thread]: the client's std::thread objects, each
                  \* the thread of execution it owns or NoThread
    proc,         \* "running"; "terminated": std::terminate was called;
                  \* "crashed" or "undefined" after an undefined operation
    scoped,       \* [Objs -> record]: the ScopedThread objects
    guard,        \* [Objs -> record]: the ThreadGuard objects
    m_pThread,    \* [Objs -> thread]: ThreadObject::m_pThread, NoThread null
    owner,        \* the ThreadObject its owning thread is inside Join() of
    runOf,        \* history: the ThreadObject whose Run() a thread executes
    copied,       \* history: the ThreadObjects copied from or assigned to
    instance,     \* [Classes -> state] of the static local in getInstance
    ctorRuns,     \* history: constructor runs on each static instance
    caller,       \* [Threads -> record]: the calls of getInstance under way
    m_product,    \* SpecializedBuilder1::m_product: a product or NoProduct
    m_parts,      \* [Products -> Seq(part)]: Product1::m_parts
    heap,         \* [Products -> "free" | "builder" | "client" | "leaked"]:
                  \* who is to delete each Product1: "free" when it is not
                  \* allocated, "leaked" when no pointer to it is left
    since,        \* history: parts produced since the last GetProduct
    service,      \* [Objs -> record]: the Service objects
    depAlive,     \* [Deps -> BOOLEAN]: the Dependency objects not deleted
    invoked       \* the pointer Operation() was last called through

stdThreadVars ==
    <<exec, thr, proc, scoped, guard, m_pThread, owner, runOf, copied>>
singletonVars == <<instance, ctorRuns, caller>>
builderVars == <<m_product, m_parts, heap, since>>
serviceVars == <<service, depAlive, invoked>>
patternVars == <<stdThreadVars, singletonVars, builderVars, serviceVars>>

vars == <<m_pool, alive, lease, status, home, reins, epoch, raw, freed, mutex,
          pc, tmp, patternVars>>
poolVars == <<m_pool, alive, lease, status, home, reins, epoch, raw, freed>>
threadVars == <<mutex, pc, tmp>>

NoThread == 0

\* ------------------------------------------------- std::stack<unique_ptr>
\* a push that overwrites the element on top instead of growing the stack
PushOverTop(s, x) == IF s = <<>> THEN <<x>> ELSE [s EXCEPT ![Len(s)] = x]

\* std::stack::push
Push(s, x) == Append(s, x)

\* std::queue::front: the oldest element instead of the newest
TopFront(s) == s[1]

\* std::stack::top
Top(s) == s[Len(s)]

\* std::stack::pop
Pop(s) == SubSeq(s, 1, Len(s) - 1)

\* size_t(-1), which is 2^64 - 1: a size is a residue modulo 2^64, and this
\* one is written as -1
SizeMax == -1

\* the slot below the first one, where pop() on an empty stack leaves the
\* end of the container
Below == -1

\* the stack after pop() on an empty one: its end lies one slot before its
\* start, so that its size has wrapped around and it is not empty
Underflowed == <<Below>>

\* SharedPool::Size
Size(p) == IF m_pool[p] = Underflowed THEN SizeMax ELSE Len(m_pool[p])

\* SharedPool::Empty
Empty(p) == m_pool[p] = << >>

\* the resources idle in a pool
Idle(p) == {m_pool[p][i] : i \in 1 .. Len(m_pool[p])}

\* ------------------------------------------------------------ SharedPool
\* SharedPool::Add: m_pool.push(std::move(t))
AddTo(pools, p, r) == [pools EXCEPT ![p] = Push(@, r)]

\* (mutant) Acquire() hands out the oldest resource and pops the newest
AcquirePtrBottom(pools, p) == pools[p][1]

\* the pointer Acquire() hands out: m_pool.top().release()
AcquirePtr(pools, p) == Top(pools[p])

\* (mutant) Acquire() reads the pointer with get() and leaves it in the slot
TopKept(pools, p) == pools

\* the stack after m_pool.top().release(): the top slot holds nullptr
TopReleased(pools, p) == [pools EXCEPT ![p][Len(pools[p])] = Null]

\* (mutant) Acquire() without its m_pool.pop()
AcquireNoPop(pools, p) == pools

\* the pool after Acquire(): m_pool.pop()
AcquirePop(pools, p) == [pools EXCEPT ![p] = Pop(@)]

\* the deleter Acquire() binds to the lease: the lambda calling this->Add
Deleter(pools, p, r) == AddTo(pools, p, r)

\* ---------------------------------------------------------- lease handles
\* no ptrType object in this slot
NoHandle == [live |-> FALSE, ptr |-> Null, del |-> NoPool]

\* ptrType h: it holds nullptr and an empty std::function
EmptyHandle == [live |-> TRUE, ptr |-> Null, del |-> NoPool]

\* ptrType tmp(ptr, deleter)
MakeLease(r, p) == [live |-> TRUE, ptr |-> r, del |-> p]

\* the pointer a move takes out of its source: unique_ptr::release()
MovedPtr(hd) == hd.ptr

\* the source of a move afterwards: it holds nullptr, and its std::function
\* is left valid but unspecified (d is what it holds)
MovedFrom(hd, d) == [live |-> TRUE, ptr |-> Null, del |-> d]

\* the states a moved-from std::function can be in: unspecified by the
\* standard, empty or still holding its target
MovedFromDeleters(hd) == {NoPool, hd.del}

\* the handle after release(): it holds nullptr and keeps its deleter; no
\* deleter runs, the caller gets the pointer
AfterRelease(hd) == [hd EXCEPT !.ptr = Null]

\* the handle after reset(r): it holds r and keeps its deleter
AfterResetTo(hd, r) == [hd EXCEPT !.ptr = r]

\* the handle after h.get_deleter() = d: it holds d and keeps its pointer
AfterAssign(hd, d) == [hd EXCEPT !.del = d]

\* the handle after reset(): it holds nullptr and keeps its deleter
AfterReset(hd) == [hd EXCEPT !.ptr = Null]

\* the deleter that runs on the old pointer of a handle that is reset or
\* assigned to: the one the handle held before
OldDeleter(hd) == hd.del

\* leases that own a resource
Holding(h) == lease[h].live /\ lease[h].ptr # Null

\* the handles whose lease is bound to pool p
LeasesOf(p) == {h \in Handles : Holding(h) /\ lease[h].del = p}

\* the handles that own resource r
OwnersOf(r) == {h \in Handles : Holding(h) /\ lease[h].ptr = r}

Added(p) == {r \in Res : home[r] = p}

\* the longest an idle collection gets
MaxIdle == NumRes + MaxExtra

\* the number of places resource r is in: slots of idle collections and
\* handles that own it
Places(r) ==
    Cardinality({pi \in Pools \X (1 .. MaxIdle) :
                    pi[2] <= Len(m_pool[pi[1]]) /\ m_pool[pi[1]][pi[2]] = r})
    + Cardinality(OwnersOf(r))

\* the places resource r is in and the client's raw pointer to it
Copies(r) == Places(r) + (IF r \in raw THEN 1 ELSE 0)

\* a resource the client newly constructs: std::make_unique<T>(), new T
Fresh(r) == Copies(r) = 0 /\ r \notin freed

\* the pointers there are beyond one to each resource (bounded by MaxExtra)
Extra == Cardinality({rk \in Res \X (1 .. MaxExtra) : rk[2] < Copies(rk[1])})

\* the client can pass pointer r to reset(pointer) or to a deleter: it holds
\* it as the raw pointer that release() returned, or it is the only pointer
\* to r (new T, or one that dangles), or it is one more pointer to r, read
\* with get(), as long as the bound on such pointers allows another
CanPass(r) == r \in raw \/ Copies(r) = 0 \/ Extra < MaxExtra

\* an idle collection that holds a resource twice, or one deleted before:
\* destroying it deletes a resource a second time
DoubleDelete(p) ==
    \/ Idle(p) \cap freed # {}
    \/ \E i, j \in 1 .. Len(m_pool[p]) : i < j /\ m_pool[p][i] = m_pool[p][j]

\* ------------------------------------------------------- history records
\* a round: Acquire calls on a pool none of whose leases was out (s0 is
\* the idle collection it started from, k the number of leases taken), then
\* the releases of these leases, and nothing else on that pool
NoEpoch == [on |-> FALSE, s0 |-> << >>, k |-> 0, rel |-> FALSE]

EpochAcquire(e, p) ==
    IF LeasesOf(p) = {}
    THEN [on |-> TRUE, s0 |-> m_pool[p], k |-> 1, rel |-> FALSE]
    ELSE IF e.on /\ ~e.rel
         THEN [e EXCEPT !.k = @ + 1]
         ELSE NoEpoch

EpochRelease(e) ==
    IF e.on THEN [e EXCEPT !.rel = TRUE] ELSE e

Bump(n) == IF n < 2 THEN n + 1 ELSE 2

\* ------------------------------------------- the other classes: values
NumObjs == 2       \* objects of each class the client makes
NumWorkers == 3    \* threads of execution started through std::thread
NumDeps == 2       \* Dependency objects
NumProducts == 3   \* Product1 objects the heap has room for
MaxParts == 3      \* parts produced between two GetProduct calls

Objs == 1 .. NumObjs
Workers == 1 .. NumWorkers
Deps == 1 .. NumDeps
Products == 1 .. NumProducts
NoProduct == 0
Classes == {"Singleton", "singleton"}
Parts == {"PartA1", "PartB1", "PartC1"}

\* no ScopedThread or ThreadGuard object in the slot
NoWrapper == [state |-> "none", thread |-> NoThread]

\* no Service object in the slot
NoService ==
    [state |-> "none", m_dependency |-> Null, injected |-> Null,
     assigned |-> FALSE]

\* a thread that is in no call of getInstance
NoCall == [pc |-> "idle", class |-> "Singleton", got |-> 0]

InitPatterns ==
    /\ exec = [w \in Workers |-> "none"]
    /\ thr = [i \in Objs |-> NoThread]
    /\ proc = "running"
    /\ scoped = [s \in Objs |-> NoWrapper]
    /\ guard = [g \in Objs |-> NoWrapper]
    /\ m_pThread = [o \in Objs |-> NoThread]
    /\ owner = 0
    /\ runOf = [w \in Workers |-> 0]
    /\ copied = {}
    /\ instance = [c \in Classes |-> "uninitialised"]
    /\ ctorRuns = [c \in Classes |-> 0]
    /\ caller = [t \in Threads |-> NoCall]
    /\ m_product = NoProduct
    /\ m_parts = [q \in Products |-> << >>]
    /\ heap = [q \in Products |-> "free"]
    /\ since = << >>
    /\ service = [s \in Objs |-> NoService]
    /\ depAlive = [d \in Deps |-> TRUE]
    /\ invoked = Null

Init ==
    /\ m_pool = [p \in Pools |-> << >>]
    /\ alive = [p \in Pools |-> TRUE]
    /\ lease = [h \in Handles |-> NoHandle]
    /\ status = "running"
    /\ home = [r \in Res |-> NoPool]
    /\ reins = [r \in Ptrs |-> 0]
    /\ epoch = [p \in Pools |-> NoEpoch]
    /\ raw = {}
    /\ freed = {}
    /\ mutex = NoThread
    /\ pc = [t \in Threads |-> "idle"]
    /\ tmp = [t \in Threads |-> Null]
    /\ InitPatterns

\* the deleter of a handle runs on pointer r: the handle gives its pointer
\* up, or the client calls it through get_deleter(). With the pool alive
\* that is this->Add. After ~SharedPool() the captured this dangles and the
\* call is undefined: the process dies in it, or it writes through the dead
\* object and returns, the resource in no pool. An empty std::function (the
\* deleter of a moved-from handle), called by the handle, throws
\* bad_function_call out of a noexcept member: std::terminate aborts.
\* (joins: it is not the plain end of a lease, which ends the round of the
\* pool)
DeleterRuns(p, r, joins) ==
    /\ reins' = [reins EXCEPT ![r] = Bump(@)]
    /\ \/ /\ p = NoPool
          /\ status' = "aborted"
          /\ UNCHANGED <<m_pool, epoch>>
       \/ /\ p # NoPool /\ alive[p]
          /\ m_pool' = Deleter(m_pool, p, r)
          /\ epoch' = [epoch EXCEPT
                         ![p] = IF joins THEN NoEpoch ELSE EpochRelease(@)]
          /\ status' = status
       \/ /\ p # NoPool /\ ~alive[p]
          /\ status' \in {"crashed", "undefined"}
          /\ UNCHANGED <<m_pool, epoch>>

RunDeleter(p, r) == DeleterRuns(p, r, FALSE)

\* the pool's round is over when a pointer enters or leaves one of its
\* handles by release() or reset(pointer)
EndRound(p) ==
    IF p = NoPool THEN epoch ELSE [epoch EXCEPT ![p] = NoEpoch]

\* the rounds of the pools in S are over
EndRounds(S) == [q \in Pools |-> IF q \in S THEN NoEpoch ELSE epoch[q]]

\* pool.Add(std::make_unique<T>()): the resource is newly constructed; or
\* pool.Add(std::unique_ptr<T>(raw)) with a pointer release() returned
Add(p, r) ==
    /\ status = "running" /\ alive[p]
    /\ Fresh(r) \/ r \in raw
    /\ m_pool' = AddTo(m_pool, p, r)
    /\ home' = [home EXCEPT ![r] = p]
    /\ epoch' = [epoch EXCEPT ![p] = NoEpoch]
    /\ raw' = raw \ {r}
    /\ UNCHANGED <<alive, lease, status, reins, freed, threadVars,
                   patternVars>>

\* ptrType h = pool.Acquire() on a pool that is not empty
Acquire(p, h) ==
    /\ status = "running" /\ alive[p]
    /\ ~lease[h].live
    /\ ~Empty(p)
    /\ LET r == AcquirePtr(m_pool, p) IN
        /\ lease' = [lease EXCEPT ![h] = MakeLease(r, p)]
        /\ m_pool' = AcquirePop(m_pool, p)
        /\ reins' = [reins EXCEPT ![r] = 0]
        /\ epoch' = [epoch EXCEPT ![p] = EpochAcquire(@, p)]
    /\ UNCHANGED <<alive, status, home, raw, freed, threadVars, patternVars>>

\* pool.Acquire() on an empty pool, assertions compiled in: assert() aborts
AcquireEmpty(p) ==
    /\ status = "running" /\ alive[p]
    /\ Empty(p)
    /\ status' = "aborted"
    /\ UNCHANGED <<m_pool, alive, lease, home, reins, epoch, raw, freed, threadVars,
                   patternVars>>

\* pool.Size() and pool.Empty(): const, they read m_pool only
Query(p) ==
    /\ status = "running" /\ alive[p]
    /\ Size(p) >= 0 /\ Empty(p) \in BOOLEAN
    /\ UNCHANGED vars

\* h.reset(): the handle drops its pointer and, if it had one, runs its
\* deleter on it
Reset(h) ==
    /\ status = "running"
    /\ lease[h].live
    /\ lease' = [lease EXCEPT ![h] = AfterReset(@)]
    /\ LET r == lease[h].ptr
           p == OldDeleter(lease[h]) IN
        IF r = Null
        THEN UNCHANGED <<m_pool, status, reins, epoch>>
        ELSE RunDeleter(p, r)
    /\ UNCHANGED <<alive, home, raw, freed, threadVars, patternVars>>

\* the handle leaves its scope (normal exit, return, unwinding): ~unique_ptr
\* runs the deleter if the handle owns a pointer
EndScope(h) ==
    /\ status = "running"
    /\ lease[h].live
    /\ lease' = [lease EXCEPT ![h] = NoHandle]
    /\ LET r == lease[h].ptr
           p == OldDeleter(lease[h]) IN
        IF r = Null
        THEN UNCHANGED <<m_pool, status, reins, epoch>>
        ELSE RunDeleter(p, r)
    /\ UNCHANGED <<alive, home, raw, freed, threadVars, patternVars>>

\* ptrType d(std::move(s)): pointer and deleter move, no deleter runs
MoveConstruct(s, d) ==
    /\ status = "running"
    /\ s # d /\ lease[s].live /\ ~lease[d].live
    /\ \E f \in MovedFromDeleters(lease[s]) :
        lease' = [lease EXCEPT ![d] = MakeLease(MovedPtr(lease[s]), lease[s].del),
                               ![s] = MovedFrom(lease[s], f)]
    /\ UNCHANGED <<m_pool, alive, status, home, reins, epoch, raw, freed, threadVars,
                   patternVars>>

\* d = std::move(s): reset(s.release()) runs d's own deleter on d's old
\* pointer, then the deleter of s is moved in
MoveAssign(s, d) ==
    /\ status = "running"
    /\ s # d /\ lease[s].live /\ lease[d].live
    /\ \E f \in MovedFromDeleters(lease[s]) :
        lease' = [lease EXCEPT ![d] = MakeLease(MovedPtr(lease[s]), lease[s].del),
                               ![s] = MovedFrom(lease[s], f)]
    /\ LET r == lease[d].ptr
           p == OldDeleter(lease[d]) IN
        IF r = Null
        THEN UNCHANGED <<m_pool, status, reins, epoch>>
        ELSE RunDeleter(p, r)
    /\ UNCHANGED <<alive, home, raw, freed, threadVars, patternVars>>

\* T* raw = h.release(): the handle gives its pointer to the caller and keeps
\* its deleter, which does not run: the resource is the client's
ReleasePointer(h) ==
    /\ status = "running"
    /\ Holding(h)
    /\ lease' = [lease EXCEPT ![h] = AfterRelease(@)]
    /\ raw' = raw \cup {lease[h].ptr}
    /\ epoch' = EndRound(lease[h].del)
    /\ UNCHANGED <<m_pool, alive, status, home, reins, freed, threadVars,
                   patternVars>>

\* h.reset(r) with any pointer (one release() returned, one read with
\* get(), the handle's own, new T): the handle takes the pointer and, if it
\* had one before, runs its deleter on the old one
ResetTo(h, r) ==
    /\ status = "running"
    /\ lease[h].live
    /\ CanPass(r)
    /\ lease' = [lease EXCEPT ![h] = AfterResetTo(@, r)]
    /\ raw' = raw \ {r}
    /\ LET old == lease[h].ptr
           p == OldDeleter(lease[h]) IN
        IF old = Null
        THEN /\ epoch' = EndRound(p)
             /\ UNCHANGED <<m_pool, status, reins>>
        ELSE DeleterRuns(p, old, TRUE)
    /\ UNCHANGED <<alive, home, freed, threadVars, patternVars>>

\* ptrType h: a handle that owns nothing and has no deleter
DefaultConstruct(h) ==
    /\ status = "running"
    /\ ~lease[h].live
    /\ lease' = [lease EXCEPT ![h] = EmptyHandle]
    /\ UNCHANGED <<m_pool, alive, status, home, reins, epoch, raw, freed,
                   threadVars, patternVars>>

\* h.get_deleter()(r): the client runs the deleter of the handle on a
\* pointer, h.get() or another, and the handle keeps what it holds. An empty
\* std::function throws bad_function_call to the caller and nothing changes
CallDeleter(h, r) ==
    /\ status = "running"
    /\ lease[h].live
    /\ CanPass(r)
    /\ IF lease[h].del = NoPool
       THEN UNCHANGED <<m_pool, status, reins, epoch, raw>>
       ELSE /\ DeleterRuns(lease[h].del, r, TRUE)
            /\ raw' = raw \ {r}
    /\ UNCHANGED <<alive, lease, home, freed, threadVars, patternVars>>

\* the deleters the client can copy: the ones of its handles, and nullptr
Deleters ==
    {NoPool} \cup {lease[g].del : g \in {x \in Handles : lease[x].live}}

\* h.get_deleter() = g.get_deleter(), h.get_deleter() = nullptr: the handle
\* gets another deleter and keeps its pointer
AssignDeleter(h, d) ==
    /\ status = "running"
    /\ lease[h].live
    /\ d \in Deleters
    /\ lease' = [lease EXCEPT ![h] = AfterAssign(@, d)]
    /\ epoch' = EndRounds({lease[h].del, d})
    /\ UNCHANGED <<m_pool, alive, status, home, reins, raw, freed,
                   threadVars, patternVars>>

\* a.swap(b), std::swap(a, b): the handles exchange pointer and deleter, no
\* deleter runs
Swap(a, b) ==
    /\ status = "running"
    /\ a # b /\ lease[a].live /\ lease[b].live
    /\ lease' = [lease EXCEPT ![a] = lease[b], ![b] = lease[a]]
    /\ UNCHANGED <<m_pool, alive, status, home, reins, epoch, raw, freed,
                   threadVars, patternVars>>

\* ~SharedPool(): m_pool is destroyed and with it the idle resources, each
\* deleted once per slot that holds it; the destructor looks at no lease.
\* Deleting a resource a second time is undefined
DestroyPool(p) ==
    /\ status = "running" /\ alive[p]
    /\ alive' = [alive EXCEPT ![p] = FALSE]
    /\ m_pool' = [m_pool EXCEPT ![p] = << >>]
    /\ epoch' = [epoch EXCEPT ![p] = NoEpoch]
    /\ freed' = freed \cup (Idle(p) \cap Res)
    /\ IF DoubleDelete(p)
       THEN status' \in {"crashed", "undefined"}
       ELSE status' = status
    /\ UNCHANGED <<lease, home, reins, raw, threadVars, patternVars>>

Next ==
    \/ \E p \in Pools, r \in Res : Add(p, r)
    \/ \E p \in Pools, h \in Handles : Acquire(p, h)
    \/ \E p \in Pools : AcquireEmpty(p)
    \/ \E p \in Pools : Query(p)
    \/ \E h \in Handles : Reset(h)
    \/ \E h \in Handles : EndScope(h)
    \/ \E s, d \in Handles : MoveConstruct(s, d)
    \/ \E s, d \in Handles : MoveAssign(s, d)
    \/ \E h \in Handles : ReleasePointer(h)
    \/ \E h \in Handles, r \in Res : ResetTo(h, r)
    \/ \E a, b \in Handles : Swap(a, b)
    \/ \E h \in Handles : DefaultConstruct(h)
    \/ \E h \in Handles, r \in Res : CallDeleter(h, r)
    \/ \E h \in Handles, d \in Pools \cup {NoPool} : AssignDeleter(h, d)
    \/ \E p \in Pools : DestroyPool(p)

Spec == Init /\ [][Next]_vars

\* ------------------------------------------- the build without assertions
\* pool.Acquire() on an empty pool with NDEBUG defined: assert() expands to
\* nothing, and top() and pop() on the empty stack are undefined. The
\* process dies in them, or Acquire() returns a lease on whatever pointer
\* top() read below the first slot (g: nullptr, the address of a resource,
\* or of none) and pop() has moved the end of the stack before its start.
AcquireEmptyNDEBUG(p, h) ==
    /\ status = "running" /\ alive[p]
    /\ ~lease[h].live
    /\ Empty(p)
    /\ \/ /\ status' = "crashed"
          /\ UNCHANGED <<m_pool, lease>>
       \/ /\ status' = "undefined"
          /\ \E g \in Ptrs \cup {Null} :
                lease' = [lease EXCEPT ![h] = MakeLease(g, p)]
          /\ m_pool' = [m_pool EXCEPT ![p] = Underflowed]
    /\ UNCHANGED <<alive, home, reins, epoch, raw, freed, threadVars, patternVars>>

NextNDEBUG ==
    \/ \E p \in Pools, r \in Res : Add(p, r)
    \/ \E p \in Pools, h \in Handles : Acquire(p, h)
    \/ \E p \in Pools, h \in Handles : AcquireEmptyNDEBUG(p, h)
    \/ \E p \in Pools : Query(p)
    \/ \E h \in Handles : Reset(h)
    \/ \E h \in Handles : EndScope(h)
    \/ \E s, d \in Handles : MoveConstruct(s, d)
    \/ \E s, d \in Handles : MoveAssign(s, d)
    \/ \E h \in Handles : ReleasePointer(h)
    \/ \E h \in Handles, r \in Res : ResetTo(h, r)
    \/ \E a, b \in Handles : Swap(a, b)
    \/ \E h \in Handles : DefaultConstruct(h)
    \/ \E h \in Handles, r \in Res : CallDeleter(h, r)
    \/ \E h \in Handles, d \in Pools \cup {NoPool} : AssignDeleter(h, d)
    \/ \E p \in Pools : DestroyPool(p)

SpecNDEBUG == Init /\ [][NextNDEBUG]_vars

\* ------------------------------------- borrower threads behind one mutex
\* Threads share one pool and serialise every call on it, and every lease
\* release, with a mutex of their own: SharedPool has none. Thread t keeps
\* its lease in handle t. The calls run statement by statement.
Shared == 1

T_Lock(t) ==
    /\ status = "running"
    /\ pc[t] = "idle" /\ mutex = NoThread
    /\ mutex' = t
    /\ pc' = [pc EXCEPT ![t] = "locked"]
    /\ UNCHANGED <<poolVars, tmp, patternVars>>

T_Unlock(t) ==
    /\ status = "running"
    /\ pc[t] = "unlock" /\ mutex = t
    /\ mutex' = NoThread
    /\ pc' = [pc EXCEPT ![t] = "idle"]
    /\ UNCHANGED <<poolVars, tmp, patternVars>>

\* Add: m_pool.push(std::move(t))
T_Add(t, r) ==
    /\ status = "running"
    /\ pc[t] = "locked"
    /\ home[r] = NoPool
    /\ m_pool' = AddTo(m_pool, Shared, r)
    /\ home' = [home EXCEPT ![r] = Shared]
    /\ pc' = [pc EXCEPT ![t] = "unlock"]
    /\ UNCHANGED <<alive, lease, status, reins, epoch, raw, freed, mutex, tmp,
                   patternVars>>

\* Size() and Empty()
T_Query(t) ==
    /\ status = "running"
    /\ pc[t] = "locked"
    /\ Size(Shared) >= 0 /\ Empty(Shared) \in BOOLEAN
    /\ pc' = [pc EXCEPT ![t] = "unlock"]
    /\ UNCHANGED <<poolVars, mutex, tmp, patternVars>>

\* Acquire: assert(!m_pool.empty()) fails
T_AcquireAbort(t) ==
    /\ status = "running"
    /\ pc[t] = "locked" /\ ~lease[t].live
    /\ Empty(Shared)
    /\ status' = "aborted"
    /\ UNCHANGED <<m_pool, alive, lease, home, reins, epoch, raw, freed, threadVars,
                   patternVars>>

\* Acquire: assert(!m_pool.empty()) passes
T_AcquireAssert(t) ==
    /\ status = "running"
    /\ pc[t] = "locked" /\ ~lease[t].live
    /\ ~Empty(Shared)
    /\ pc' = [pc EXCEPT ![t] = "acq_top"]
    /\ UNCHANGED <<poolVars, mutex, tmp, patternVars>>

\* Acquire: ptrType tmp(m_pool.top().release(), deleter). The stack is as
\* the assertion found it while the caller holds the mutex; top() on an
\* empty stack is undefined
T_AcquireTop(t) ==
    /\ status = "running"
    /\ pc[t] = "acq_top"
    /\ IF Empty(Shared)
       THEN /\ status' \in {"crashed", "undefined"}
            /\ UNCHANGED <<m_pool, tmp, pc>>
       ELSE /\ tmp' = [tmp EXCEPT ![t] = AcquirePtr(m_pool, Shared)]
            /\ m_pool' = TopReleased(m_pool, Shared)
            /\ pc' = [pc EXCEPT ![t] = "acq_pop"]
            /\ status' = status
    /\ UNCHANGED <<alive, lease, home, reins, epoch, raw, freed, mutex,
                   patternVars>>

\* Acquire: m_pool.pop()
T_AcquirePop(t) ==
    /\ status = "running"
    /\ pc[t] = "acq_pop"
    /\ m_pool' = AcquirePop(m_pool, Shared)
    /\ pc' = [pc EXCEPT ![t] = "acq_ret"]
    /\ UNCHANGED <<alive, lease, status, home, reins, epoch, raw, freed, mutex, tmp,
                   patternVars>>

\* Acquire: return std::move(tmp), into the thread's handle
T_AcquireReturn(t) ==
    /\ status = "running"
    /\ pc[t] = "acq_ret"
    /\ lease' = [lease EXCEPT ![t] = MakeLease(tmp[t], Shared)]
    /\ reins' = [reins EXCEPT ![tmp[t]] = 0]
    /\ tmp' = [tmp EXCEPT ![t] = Null]
    /\ pc' = [pc EXCEPT ![t] = "unlock"]
    /\ UNCHANGED <<m_pool, alive, status, home, epoch, raw, freed, mutex, patternVars>>

\* the lease ends: the handle passes its pointer to its deleter
T_ReleaseBegin(t) ==
    /\ status = "running"
    /\ pc[t] = "locked" /\ Holding(t)
    /\ tmp' = [tmp EXCEPT ![t] = lease[t].ptr]
    /\ lease' = [lease EXCEPT ![t] = AfterReset(@)]
    /\ pc' = [pc EXCEPT ![t] = "rel_add"]
    /\ UNCHANGED <<m_pool, alive, status, home, reins, epoch, raw, freed, mutex,
                   patternVars>>

\* the deleter: this->Add(std::unique_ptr<T>(ptr)); the handle is gone
T_ReleaseAdd(t) ==
    /\ status = "running"
    /\ pc[t] = "rel_add"
    /\ m_pool' = Deleter(m_pool, OldDeleter(lease[t]), tmp[t])
    /\ reins' = [reins EXCEPT ![tmp[t]] = Bump(@)]
    /\ lease' = [lease EXCEPT ![t] = NoHandle]
    /\ tmp' = [tmp EXCEPT ![t] = Null]
    /\ pc' = [pc EXCEPT ![t] = "unlock"]
    /\ UNCHANGED <<alive, status, home, epoch, raw, freed, mutex, patternVars>>

Calls(t) ==
    \/ \E r \in Res : T_Add(t, r)
    \/ T_Query(t)
    \/ T_AcquireAbort(t)
    \/ T_AcquireAssert(t)
    \/ T_AcquireTop(t)
    \/ T_AcquirePop(t)
    \/ T_AcquireReturn(t)
    \/ T_ReleaseBegin(t)
    \/ T_ReleaseAdd(t)

NextMT == \E t \in Threads : T_Lock(t) \/ Calls(t) \/ T_Unlock(t)

SpecMT == Init /\ [][NextMT]_vars

\* ------------------------------------------------------------ std::thread
objectPoolVars == <<poolVars, threadVars>>

\* std::thread::joinable: the object owns a thread of execution
Joinable(t) == t # NoThread

\* a join that does not wait for the thread to finish
JoinReturnsAtOnce(w) == TRUE

\* std::thread::join returns once the thread of execution has finished
JoinReturns(w) == exec[w] = "done"

\* std::thread::~thread: a thread object destroyed while joinable calls
\* std::terminate
ThreadDestroyed(t) == IF Joinable(t) THEN "terminated" ELSE "running"

\* std::thread t(f): the client starts a thread of execution
Launch(i, w) ==
    /\ proc = "running"
    /\ thr[i] = NoThread /\ exec[w] = "none"
    /\ thr' = [thr EXCEPT ![i] = w]
    /\ exec' = [exec EXCEPT ![w] = "running"]
    /\ UNCHANGED <<proc, scoped, guard, m_pThread, owner, runOf, copied>>
    /\ UNCHANGED <<objectPoolVars, singletonVars, builderVars, serviceVars>>

\* the function of a thread returns: for a ThreadObject worker, Run()
Finish(w) ==
    /\ proc = "running"
    /\ exec[w] = "running"
    /\ exec' = [exec EXCEPT ![w] = "done"]
    /\ UNCHANGED <<thr, proc, scoped, guard, m_pThread, owner, runOf, copied>>
    /\ UNCHANGED <<objectPoolVars, singletonVars, builderVars, serviceVars>>

\* ----------------------------------------------------------- ScopedThread
\* the constructor after m_thread(std::move(thr)): logic_error unless
\* m_thread is joinable
ScopedThreadChecked(t) ==
    IF Joinable(t) THEN [state |-> "alive", thread |-> t]
    ELSE [state |-> "threw", thread |-> NoThread]

\* ScopedThread s(std::move(thr[i]))
ScopedThreadCtor(s, i) ==
    /\ proc = "running"
    /\ scoped[s].state \in {"none", "threw"}
    /\ thr' = [thr EXCEPT ![i] = NoThread]
    /\ scoped' = [scoped EXCEPT ![s] = ScopedThreadChecked(thr[i])]
    /\ UNCHANGED <<exec, proc, guard, m_pThread, owner, runOf, copied>>
    /\ UNCHANGED <<objectPoolVars, singletonVars, builderVars, serviceVars>>

\* ~ScopedThread is entered: it calls m_thread.join(), which throws out of
\* the destructor when m_thread is not joinable
ScopedThreadDtor(s) ==
    /\ proc = "running"
    /\ scoped[s].state = "alive"
    /\ IF Joinable(scoped[s].thread)
       THEN /\ scoped' = [scoped EXCEPT ![s].state = "joining"]
            /\ proc' = proc
       ELSE /\ scoped' = [scoped EXCEPT ![s].state = "gone"]
            /\ proc' = "terminated"
    /\ UNCHANGED <<exec, thr, guard, m_pThread, owner, runOf, copied>>
    /\ UNCHANGED <<objectPoolVars, singletonVars, builderVars, serviceVars>>

\* m_thread.join() returns and with it ~ScopedThread
ScopedThreadJoined(s) ==
    /\ proc = "running"
    /\ scoped[s].state = "joining"
    /\ JoinReturns(scoped[s].thread)
    /\ exec' = [exec EXCEPT ![scoped[s].thread] = "joined"]
    /\ scoped' = [scoped EXCEPT ![s].state = "gone"]
    /\ UNCHANGED <<thr, proc, guard, m_pThread, owner, runOf, copied>>
    /\ UNCHANGED <<objectPoolVars, singletonVars, builderVars, serviceVars>>

NextScoped ==
    \/ \E i \in Objs : \E w \in Workers : Launch(i, w)
    \/ \E w \in Workers : Finish(w)
    \/ \E s, i \in Objs : ScopedThreadCtor(s, i)
    \/ \E s \in Objs : ScopedThreadDtor(s)
    \/ \E s \in Objs : ScopedThreadJoined(s)

SpecScoped == Init /\ [][NextScoped]_vars

\* ------------------------------------------------------------ ThreadGuard
\* ThreadGuard g(std::move(thr[i])): the constructor takes the thread by
\* value and binds the reference member m_thr to that parameter, which is
\* destroyed when the constructor returns
ThreadGuardCtor(g, i) ==
    /\ proc = "running"
    /\ guard[g].state = "none"
    /\ thr' = [thr EXCEPT ![i] = NoThread]
    /\ guard' = [guard EXCEPT ![g] = [state |-> "alive", thread |-> thr[i]]]
    /\ proc' = ThreadDestroyed(thr[i])
    /\ UNCHANGED <<exec, scoped, m_pThread, owner, runOf, copied>>
    /\ UNCHANGED <<objectPoolVars, singletonVars, builderVars, serviceVars>>

\* ~ThreadGuard: m_thr.joinable() reads the destroyed parameter through
\* the dangling reference, which is undefined: the destructor returns
\* having joined nothing, or the process dies, or anything else happens
ThreadGuardDtor(g) ==
    /\ proc = "running"
    /\ guard[g].state = "alive"
    /\ guard' = [guard EXCEPT ![g].state = "gone"]
    /\ proc' \in {"running", "crashed", "undefined"}
    /\ UNCHANGED <<exec, thr, scoped, m_pThread, owner, runOf, copied>>
    /\ UNCHANGED <<objectPoolVars, singletonVars, builderVars, serviceVars>>

NextGuard ==
    \/ \E i \in Objs : \E w \in Workers : Launch(i, w)
    \/ \E w \in Workers : Finish(w)
    \/ \E g, i \in Objs : ThreadGuardCtor(g, i)
    \/ \E g \in Objs : ThreadGuardDtor(g)

SpecGuard == Init /\ [][NextGuard]_vars

\* ----------------------------------------------------------- ThreadObject
\* a Start() that does not look at the handle it holds
StartAlways(h) == TRUE

\* Start() launches a thread only if (m_pThread == nullptr)
StartLaunches(h) == h = NoThread

\* Start(), called by the owning thread: the new thread of execution is one
\* that never ran, named by the lowest number not used yet
Start(o) ==
    /\ proc = "running" /\ owner = 0
    /\ IF StartLaunches(m_pThread[o])
       THEN \E w \in Workers :
               /\ exec[w] = "none"
               /\ \A x \in 1 .. w - 1 : exec[x] # "none"
               /\ exec' = [exec EXCEPT ![w] = "running"]
               /\ runOf' = [runOf EXCEPT ![w] = o]
               /\ m_pThread' = [m_pThread EXCEPT ![o] = w]
       ELSE UNCHANGED <<exec, runOf, m_pThread>>
    /\ UNCHANGED <<thr, proc, scoped, guard, owner, copied>>
    /\ UNCHANGED <<objectPoolVars, singletonVars, builderVars, serviceVars>>

\* Join() is entered by the owning thread: with a handle it calls
\* m_pThread->join(), without one it returns. A handle that another
\* ThreadObject already deleted dangles, and the call through it is
\* undefined
Join(o) ==
    /\ proc = "running" /\ owner = 0
    /\ IF m_pThread[o] # NoThread /\ exec[m_pThread[o]] = "joined"
       THEN /\ proc' \in {"crashed", "undefined"}
            /\ owner' = owner
       ELSE /\ owner' = (IF m_pThread[o] # NoThread THEN o ELSE 0)
            /\ proc' = proc
    /\ UNCHANGED <<exec, thr, scoped, guard, m_pThread, runOf, copied>>
    /\ UNCHANGED <<objectPoolVars, singletonVars, builderVars, serviceVars>>

\* m_pThread->join() returns; delete m_pThread; m_pThread = nullptr
JoinReturn(o) ==
    /\ proc = "running" /\ owner = o
    /\ JoinReturns(m_pThread[o])
    /\ exec' = [exec EXCEPT ![m_pThread[o]] = "joined"]
    /\ m_pThread' = [m_pThread EXCEPT ![o] = NoThread]
    /\ owner' = 0
    /\ UNCHANGED <<thr, proc, scoped, guard, runOf, copied>>
    /\ UNCHANGED <<objectPoolVars, singletonVars, builderVars, serviceVars>>

\* o = u, or o constructed as a copy of u: the implicit copy members copy
\* the handle, so that both objects point to the one std::thread and the
\* std::thread o pointed to is lost
CopyThreadObject(o, u) ==
    /\ proc = "running" /\ owner = 0
    /\ o # u
    /\ m_pThread' = [m_pThread EXCEPT ![o] = m_pThread[u]]
    /\ copied' = copied \cup {o, u}
    /\ UNCHANGED <<exec, thr, proc, scoped, guard, owner, runOf>>
    /\ UNCHANGED <<objectPoolVars, singletonVars, builderVars, serviceVars>>

NextThreadObject ==
    \/ \E o \in Objs : Start(o)
    \/ \E w \in Workers : Finish(w)
    \/ \E o \in Objs : Join(o)
    \/ \E o \in Objs : JoinReturn(o)
    \/ \E o, u \in Objs : CopyThreadObject(o, u)

SpecThreadObject == Init /\ [][NextThreadObject]_vars

\* -------------------------------------------------------------- Singleton
\* a first-use test that reads a flag without waiting for a construction
\* under way
GuardAcquireUnsafe(g) == IF g = "initialised" THEN "return" ELSE "construct"

\* control reaching the declaration of the static local: the first thread
\* initialises it, a thread arriving during the initialisation waits for
\* it to complete, later ones skip it
GuardAcquire(g) ==
    CASE g = "initialised" -> "return"
      [] g = "uninitialised" -> "construct"
      [] OTHER -> "wait"

\* thread t calls getInstance() of class c
getInstance(t, c) ==
    /\ caller[t].pc = "idle"
    /\ caller' = [caller EXCEPT ![t] = [pc |-> "enter", class |-> c, got |-> 0]]
    /\ UNCHANGED <<instance, ctorRuns>>
    /\ UNCHANGED <<objectPoolVars, stdThreadVars, builderVars, serviceVars>>

\* static Singleton instance; is reached
StaticReached(t) ==
    /\ caller[t].pc = "enter"
    /\ LET c == caller[t].class
           todo == GuardAcquire(instance[c]) IN
        /\ todo # "wait"
        /\ caller' = [caller EXCEPT ![t].pc = todo]
        /\ instance' = IF todo = "construct"
                       THEN [instance EXCEPT ![c] = "constructing"]
                       ELSE instance
    /\ UNCHANGED ctorRuns
    /\ UNCHANGED <<objectPoolVars, stdThreadVars, builderVars, serviceVars>>

\* the private constructor runs and the initialisation completes
Construct(t) ==
    /\ caller[t].pc = "construct"
    /\ ctorRuns' = [ctorRuns EXCEPT ![caller[t].class] = @ + 1]
    /\ instance' = [instance EXCEPT ![caller[t].class] = "initialised"]
    /\ caller' = [caller EXCEPT ![t].pc = "return"]
    /\ UNCHANGED <<objectPoolVars, stdThreadVars, builderVars, serviceVars>>

\* return instance: the caller gets the object in the static storage, here
\* named by the constructor run that made it
ReturnInstance(t) ==
    /\ caller[t].pc = "return"
    /\ caller' = [caller EXCEPT ![t].pc = "idle",
                                ![t].got = ctorRuns[caller[t].class]]
    /\ UNCHANGED <<instance, ctorRuns>>
    /\ UNCHANGED <<objectPoolVars, stdThreadVars, builderVars, serviceVars>>

NextSingleton ==
    \E t \in Threads :
        \/ \E c \in Classes : getInstance(t, c)
        \/ StaticReached(t)
        \/ Construct(t)
        \/ ReturnInstance(t)

SpecSingleton == Init /\ [][NextSingleton]_vars

\* ---------------------------------------------------- SpecializedBuilder1
notBuilderVars == <<objectPoolVars, stdThreadVars, singletonVars, serviceVars>>

\* a Reset() that keeps the product the builder has
BuilderResetKeeps(m, q) == m

\* Reset(): m_product = new Product1(), q being the object new returned
BuilderReset(m, q) == q

\* m_product->m_parts.push_back(x)
PushBack(parts, q, x) == [parts EXCEPT ![q] = Append(@, x)]

\* new SpecializedBuilder1(): the constructor calls Reset()
NewBuilder ==
    /\ m_product = NoProduct
    /\ \E q \in Products :
          /\ heap[q] = "free"
          /\ m_product' = BuilderReset(m_product, q)
          /\ heap' = [heap EXCEPT ![q] = "builder"]
          /\ m_parts' = [m_parts EXCEPT ![q] = << >>]
    /\ since' = << >>
    /\ UNCHANGED notBuilderVars

ProducePart(x) ==
    /\ m_product # NoProduct
    /\ Len(since) < MaxParts
    /\ m_parts' = PushBack(m_parts, m_product, x)
    /\ since' = Append(since, x)
    /\ UNCHANGED <<m_product, heap>>
    /\ UNCHANGED notBuilderVars

ProducePartA == ProducePart("PartA1")

ProducePartB == ProducePart("PartB1")

ProducePartC == ProducePart("PartC1")

\* Director::BuildMinimalProduct on the builder
BuildMinimalProduct == ProducePartA

\* Director::BuildFullProduct on the builder
BuildFullProduct ==
    /\ m_product # NoProduct
    /\ Len(since) + 3 <= MaxParts
    /\ m_parts' = PushBack(PushBack(PushBack(m_parts, m_product, "PartA1"),
                                    m_product, "PartB1"), m_product, "PartC1")
    /\ since' = since \o <<"PartA1", "PartB1", "PartC1">>
    /\ UNCHANGED <<m_product, heap>>
    /\ UNCHANGED notBuilderVars

\* p = builder->GetProduct(): result = m_product; Reset(); return result.
\* The caller is to delete p, whatever products it holds already
GetProduct ==
    /\ m_product # NoProduct
    /\ \E q \in Products :
          /\ heap[q] = "free"
          /\ m_product' = BuilderReset(m_product, q)
          /\ heap' = [heap EXCEPT ![m_product] = "client", ![q] = "builder"]
          /\ m_parts' = [m_parts EXCEPT ![q] = << >>]
    /\ since' = << >>
    /\ UNCHANGED notBuilderVars

\* builder->Reset(), called by the client: the public Reset() points the
\* builder to a new product and deletes nothing, so the product it had
\* stays allocated with no pointer to it (its parts, which nothing can
\* read any more, are not kept in the state)
ResetBuilder ==
    /\ m_product # NoProduct
    /\ \E q \in Products :
          /\ heap[q] = "free"
          /\ m_product' = BuilderReset(m_product, q)
          /\ heap' = [heap EXCEPT ![m_product] = "leaked", ![q] = "builder"]
          /\ m_parts' = [m_parts EXCEPT ![m_product] = << >>, ![q] = << >>]
    /\ UNCHANGED since
    /\ UNCHANGED notBuilderVars

\* delete p, by the client
DeleteProduct(q) ==
    /\ heap[q] = "client"
    /\ heap' = [heap EXCEPT ![q] = "free"]
    /\ m_parts' = [m_parts EXCEPT ![q] = << >>]
    /\ UNCHANGED <<m_product, since>>
    /\ UNCHANGED notBuilderVars

\* delete builder: ~SpecializedBuilder1 deletes m_product
DeleteBuilder ==
    /\ m_product # NoProduct
    /\ heap' = [heap EXCEPT ![m_product] = "free"]
    /\ m_parts' = [m_parts EXCEPT ![m_product] = << >>]
    /\ m_product' = NoProduct
    /\ since' = << >>
    /\ UNCHANGED notBuilderVars

NextBuilder ==
    \/ NewBuilder
    \/ ProducePartA \/ ProducePartB \/ ProducePartC
    \/ BuildMinimalProduct \/ BuildFullProduct
    \/ GetProduct
    \/ ResetBuilder
    \/ \E q \in Products : DeleteProduct(q)
    \/ DeleteBuilder

SpecBuilder == Init /\ [][NextBuilder]_vars

\* ---------------------------------------------------------------- Service
notServiceVars ==
    <<objectPoolVars, singletonVars, builderVars,
      exec, thr, scoped, guard, m_pThread, owner, runOf, copied>>

\* a constructor that stores the pointer without testing it
ServiceUnchecked(d) ==
    [state |-> "alive", m_dependency |-> d, injected |-> d,
     assigned |-> FALSE]

\* Service(dependency): m_dependency(dependency), then invalid_argument is
\* thrown if it is null
ServiceChecked(d) ==
    IF d = Null
    THEN [state |-> "threw", m_dependency |-> Null, injected |-> Null,
          assigned |-> FALSE]
    ELSE [state |-> "alive", m_dependency |-> d, injected |-> d,
          assigned |-> FALSE]

\* Service s(d), d being null or a pointer to a Dependency
ServiceCtor(s, d) ==
    /\ proc = "running"
    /\ service[s].state \in {"none", "threw"}
    /\ service' = [service EXCEPT ![s] = ServiceChecked(d)]
    /\ UNCHANGED <<proc, depAlive, invoked>>
    /\ UNCHANGED notServiceVars

\* Service u(s): the implicit copy constructor
CopyService(s, u) ==
    /\ proc = "running"
    /\ service[s].state = "alive" /\ service[u].state \in {"none", "threw"}
    /\ service' = [service EXCEPT ![u] =
                      [state |-> "alive",
                       m_dependency |-> service[s].m_dependency,
                       injected |-> service[s].m_dependency,
                       assigned |-> FALSE]]
    /\ UNCHANGED <<proc, depAlive, invoked>>
    /\ UNCHANGED notServiceVars

\* s = u: the implicit copy assignment copies m_dependency
AssignService(s, u) ==
    /\ proc = "running"
    /\ service[s].state = "alive" /\ service[u].state = "alive"
    /\ service' = [service EXCEPT ![s].m_dependency = service[u].m_dependency,
                                  ![s].assigned = TRUE]
    /\ UNCHANGED <<proc, depAlive, invoked>>
    /\ UNCHANGED notServiceVars

\* s = d: the constructor is not explicit, so a temporary Service(d) is
\* made and assigned; for a null d its constructor throws and s is as before
AssignDependency(s, d) ==
    /\ proc = "running"
    /\ service[s].state = "alive"
    /\ service' = IF ServiceChecked(d).state = "alive"
                  THEN [service EXCEPT ![s].m_dependency =
                                            ServiceChecked(d).m_dependency,
                                       ![s].assigned = TRUE]
                  ELSE service
    /\ UNCHANGED <<proc, depAlive, invoked>>
    /\ UNCHANGED notServiceVars

\* s.ExecuteService(): m_dependency->Operation(), undefined through a null
\* pointer or one to a deleted Dependency
ExecuteService(s) ==
    /\ proc = "running"
    /\ service[s].state = "alive"
    /\ invoked' = service[s].m_dependency
    /\ IF service[s].m_dependency # Null /\ depAlive[service[s].m_dependency]
       THEN proc' = proc
       ELSE proc' \in {"crashed", "undefined"}
    /\ UNCHANGED <<service, depAlive>>
    /\ UNCHANGED notServiceVars

\* the Service goes out of scope: it does not own its Dependency
DestroyService(s) ==
    /\ proc = "running"
    /\ service[s].state = "alive"
    /\ service' = [service EXCEPT ![s] = NoService]
    /\ UNCHANGED <<proc, depAlive, invoked>>
    /\ UNCHANGED notServiceVars

\* delete dependency, by the client
DeleteDependency(d) ==
    /\ proc = "running"
    /\ depAlive[d]
    /\ depAlive' = [depAlive EXCEPT ![d] = FALSE]
    /\ UNCHANGED <<proc, service, invoked>>
    /\ UNCHANGED notServiceVars

NextService ==
    \/ \E s \in Objs : \E d \in Deps \cup {Null} : ServiceCtor(s, d)
    \/ \E s, u \in Objs : CopyService(s, u)
    \/ \E s, u \in Objs : AssignService(s, u)
    \/ \E s \in Objs : \E d \in Deps \cup {Null} : AssignDependency(s, d)
    \/ \E s \in Objs : ExecuteService(s)
    \/ \E s \in Objs : DestroyService(s)
    \/ \E d \in Deps : DeleteDependency(d)

SpecService == Init /\ [][NextService]_vars

\* ---------------------------------------------------------------- claims
\* the steps in which the lease held by handle h ends: the handle is reset,
\* destroyed, or assigned another lease or pointer
LeaseEnds(h) ==
    /\ Holding(h)
    /\ \/ Reset(h)
       \/ EndScope(h)
       \/ \E s \in Handles : MoveAssign(s, h)
       \/ \E r \in Res : ResetTo(h, r)

\* the deleter of handle h is bound to a pool, and that pool lives
BoundPoolAlive(h) == lease[h].del # NoPool /\ alive[lease[h].del]

\* C1: resources are conserved: for every pool, the idle resources and the
\* resources out on its live leases are together exactly the resources
\* added to it, each counted once (Size() + live leases = resources added),
\* in every reachable state.
Conservation ==
    \A p \in Pools : alive[p] =>
        /\ Size(p) + Cardinality(LeasesOf(p)) = Cardinality(Added(p))
        /\ Idle(p) \cup {lease[h].ptr : h \in LeasesOf(p)} = Added(p)

\* C2: every Acquire() on a pool whose Size() is 0 signals PoolExhausted
\* (the assertion aborts) and changes neither the pools nor the leases.
AcquireOnEmptySignals ==
    [][\A p \in Pools :
          (Empty(p) /\ (AcquireEmpty(p)
                        \/ \E h \in Handles : AcquireEmptyNDEBUG(p, h)))
          => (status' = "aborted" /\ m_pool' = m_pool /\ lease' = lease)]_vars

\* C3: whenever a lease ends, its resource is idle in its pool afterwards:
\* the deleter has put it back, once.
LeaseEndReinserts ==
    [][\A h \in Handles : LeaseEnds(h) =>
          LET r == lease[h].ptr
              p == lease[h].del
          IN /\ p # NoPool
             /\ alive'[p]
             /\ \E i \in 1 .. Len(m_pool'[p]) : m_pool'[p][i] = r
             /\ reins'[r] = 1]_vars

\* C4: between two Acquire() calls that hand a resource out, the deleter
\* runs on it at most once, whatever is done with the handles.
ReleasedAtMostOnce == \A r \in Res : reins[r] <= 1

\* C5: every resource is in at most one place, and in exactly one while its
\* pool lives: once in the idle collection of the pool it was added to, or
\* owned by one handle whose deleter is bound to that pool.
ExclusiveOwnership ==
    \A r \in Res :
        /\ Places(r) <= 1
        /\ (home[r] # NoPool /\ alive[home[r]]) => Places(r) = 1
        /\ \A p \in Pools : r \in Idle(p) => home[r] = p
        /\ \A h \in OwnersOf(r) : lease[h].del = home[r]

\* C6: after k leases were acquired from a pool of size n and all of them
\* released, in any order, Size() is n again.
RoundRestoresSize ==
    \A p \in Pools :
        (alive[p] /\ epoch[p].on /\ LeasesOf(p) = {})
        => Size(p) = Len(epoch[p].s0)

\* C6 happens: two leases were released in the order that leaves the idle
\* collection permuted.
RoundRestoresSizeWitness ==
    \E p \in Pools :
        /\ alive[p] /\ epoch[p].on /\ epoch[p].k = 2 /\ LeasesOf(p) = {}
        /\ m_pool[p] # epoch[p].s0

\* C7: Acquire() on a pool that is not empty takes exactly one resource out
\* of the idle collection, the one it returns, and leaves the others, each
\* in its slot, and the other pools as they were; the release of a lease on
\* a living pool raises Size() by one and the resource is idle, to be
\* acquired again.
AcquireTakesOne ==
    [][/\ \A p \in Pools, h \in Handles : Acquire(p, h) =>
             LET r == lease'[h].ptr IN
             /\ Len(m_pool'[p]) = Len(m_pool[p]) - 1
             /\ r \in Idle(p)
             /\ m_pool[p] = Append(m_pool'[p], r)
             /\ \A q \in Pools \ {p} : m_pool'[q] = m_pool[q]
       /\ \A h \in Handles : (LeaseEnds(h) /\ BoundPoolAlive(h)) =>
             LET r == lease[h].ptr
                 p == lease[h].del
             IN /\ Len(m_pool'[p]) = Len(m_pool[p]) + 1
                /\ \E i \in 1 .. Len(m_pool'[p]) : m_pool'[p][i] = r]_vars

\* C7 happens: of a pool of two resources one was acquired and released
\* and is idle, and the pool was acquired from again: a lease is out.
AcquireTakesOneWitness ==
    \E p \in Pools : \E h \in LeasesOf(p) :
        /\ Cardinality(Added(p)) = 2 /\ Size(p) = 1
        /\ \E q \in Idle(p) : reins[q] = 1
        /\ reins[lease[h].ptr] = 0

\* C8: no lease is released against a pool that has been destroyed.
ReleaseOnLivePool ==
    [][\A h \in Handles : LeaseEnds(h) => BoundPoolAlive(h)]_vars

\* C9: the release of a lease on a resource of a pool pushes the resource
\* onto the pool it was acquired from, the one it was added to, and changes
\* no other pool, and afterwards no handle owns the resource.
ReleaseFrame ==
    [][\A h \in Handles :
          (/\ LeaseEnds(h)
           /\ lease[h].del # NoPool
           /\ home[lease[h].ptr] # NoPool) =>
          LET r == lease[h].ptr
              p == home[r]
          IN /\ \A q \in Pools \ {p} : m_pool'[q] = m_pool[q]
             /\ alive[p] => m_pool'[p] = Append(m_pool[p], r)
             /\ \A g \in Handles : ~(lease'[g].live /\ lease'[g].ptr = r)]_vars

\* the number of places resource r is in, counting the calls under way
PlacesMT(r) == Places(r) + Cardinality({t \in Threads : tmp[t] = r})

\* C10: with every call on the pool and every lease release made under the
\* clients' mutex, whatever the interleaving of the borrower threads: every
\* resource added is in exactly one place (idle once, owned by one handle,
\* or in the one call under way), and whenever the mutex is free the idle
\* resources and the live leases are together the resources added.
MutexKeepsPool ==
    /\ \A r \in Res : PlacesMT(r) = (IF home[r] = NoPool THEN 0 ELSE 1)
    /\ mutex = NoThread =>
          /\ Size(Shared) + Cardinality(LeasesOf(Shared))
                = Cardinality(Added(Shared))
          /\ Idle(Shared) \cup {lease[h].ptr : h \in LeasesOf(Shared)}
                = Added(Shared)

\* C10 happens: two borrower threads hold a lease each, on different
\* resources of the pool, and the mutex is free.
MutexKeepsPoolWitness ==
    \E t, u \in Threads :
        /\ t # u /\ Holding(t) /\ Holding(u)
        /\ lease[t].ptr # lease[u].ptr
        /\ mutex = NoThread /\ pc[t] = "idle" /\ pc[u] = "idle"

\* C11: Add on a living pool is possible whatever the pool holds, and every
\* Add step lengthens the idle collection by exactly one (Size() + 1, Empty()
\* false) with the new resource its newest entry, keeps the resources that
\* were idle before in their slots, and leaves every other pool and every
\* lease as it was.
AddSucceeds ==
    [][\A p \in Pools : \A r \in Res :
          /\ (status = "running" /\ alive[p] /\ (Fresh(r) \/ r \in raw))
                => ENABLED Add(p, r)
          /\ Add(p, r) =>
                /\ Len(m_pool'[p]) = Len(m_pool[p]) + 1
                /\ Len(m_pool'[p]) # 0
                /\ m_pool'[p][Len(m_pool'[p])] = r
                /\ \A i \in 1 .. Len(m_pool[p]) : m_pool'[p][i] = m_pool[p][i]
                /\ \A q \in Pools \ {p} : m_pool'[q] = m_pool[q]
                /\ lease' = lease
                /\ alive' = alive /\ status' = status]_vars

\* C11 happens: a resource was added to a pool while one of its leases was
\* out (the Add broke off the pool's acquire round) and is its newest idle
\* resource, never leased yet.
AddSucceedsWitness ==
    \E p \in Pools : \E r \in Res :
        /\ alive[p] /\ status = "running"
        /\ LeasesOf(p) # {}
        /\ Size(p) >= 1
        /\ m_pool[p][Len(m_pool[p])] = r /\ reins[r] = 0
        /\ ~epoch[p].on

\* C15: idle resources leave the pool last in, first out: every Add and
\* every lease release on a living pool puts its resource in the newest slot
\* of the idle collection, so that the next Acquire on that pool would return
\* it, and every Acquire returns the resource in the newest slot and leaves
\* the older ones in their order.
LastInFirstOut ==
    [][/\ \A p \in Pools : \A r \in Res :
            Add(p, r) => /\ m_pool'[p][Len(m_pool'[p])] = r
                         /\ AcquirePtr(m_pool', p) = r
       /\ \A h \in Handles :
            (LeaseEnds(h) /\ BoundPoolAlive(h)) =>
                /\ m_pool'[lease[h].del][Len(m_pool'[lease[h].del])]
                      = lease[h].ptr
                /\ AcquirePtr(m_pool', lease[h].del) = lease[h].ptr
       /\ \A p \in Pools : \A h \in Handles :
            Acquire(p, h) =>
                /\ lease'[h].ptr = m_pool[p][Len(m_pool[p])]
                /\ m_pool[p] = Append(m_pool'[p], lease'[h].ptr)]_vars

\* C15 happens: the lease for resource A was released while resource B,
\* never leased, was idle: A lies in the newest slot, above B.
LastInFirstOutWitness ==
    \E p \in Pools : \E a, b \in Res :
        /\ a # b /\ alive[p] /\ status = "running"
        /\ m_pool[p] = <<b, a>>
        /\ reins[a] = 1 /\ reins[b] = 0

\* C12: a ScopedThread comes to exist only from a joinable thread, which it
\* then owns: constructing one from a thread that is not joinable throws and
\* leaves no object. Every living ScopedThread owns a thread that was not
\* joined yet, and the step in which its destructor returns is taken only
\* when that thread has finished, without std::terminate.
ScopedThreadJoins ==
    [][\A s \in Objs :
          /\ \A i \in Objs : ScopedThreadCtor(s, i) =>
                IF thr[i] # NoThread
                THEN scoped'[s] = [state |-> "alive", thread |-> thr[i]]
                ELSE scoped'[s].state = "threw"
          /\ scoped'[s].state \in {"alive", "joining"} =>
                /\ scoped'[s].thread # NoThread
                /\ exec'[scoped'[s].thread] \in {"running", "done"}
          /\ (scoped[s].state # "gone" /\ scoped'[s].state = "gone") =>
                /\ exec[scoped[s].thread] = "done"
                /\ exec'[scoped[s].thread] = "joined"
                /\ proc' = "running"]_vars

\* C12 happens: one ScopedThread was destroyed and its thread joined, and
\* the construction of another from a thread that was not joinable threw.
ScopedThreadJoinsWitness ==
    \E s, u \in Objs :
        /\ scoped[s].state = "gone" /\ exec[scoped[s].thread] = "joined"
        /\ scoped[u].state = "threw"

\* C13: a ThreadGuard handed a joinable thread keeps referring to that
\* thread while it lives, the process is not terminated, and once its
\* destructor has returned the thread has been joined.
ThreadGuardJoins ==
    \A g \in Objs :
        (guard[g].state # "none" /\ guard[g].thread # NoThread) =>
            /\ proc # "terminated"
            /\ guard[g].state = "alive" =>
                  exec[guard[g].thread] \in {"running", "done"}
            /\ guard[g].state = "gone" => exec[guard[g].thread] = "joined"

\* C16: for a ThreadObject on which the one owning thread has called only
\* Start() and Join() (it was never copied from or assigned to): the
\* workers started for it and not joined yet are none when it holds no
\* handle and the one thread of its handle otherwise, so at most one worker
\* runs Run() for it at a time. Start() with a handle held and Join()
\* without one change nothing, Start() without a handle launches a thread
\* that was not running before, and Join() returns only when Run() has
\* completed, with the handle cleared.
OneWorkerAtATime ==
    [][\A o \in Objs \ copied' :
          /\ {w \in Workers : runOf'[w] = o /\ exec'[w] \in {"running", "done"}}
                = (IF m_pThread'[o] = NoThread THEN {} ELSE {m_pThread'[o]})
          /\ Cardinality({w \in Workers :
                            runOf'[w] = o /\ exec'[w] = "running"}) <= 1
          /\ (Start(o) /\ m_pThread[o] # NoThread) =>
                UNCHANGED <<exec, m_pThread, runOf>>
          /\ (Start(o) /\ m_pThread[o] = NoThread) =>
                /\ m_pThread'[o] # NoThread
                /\ exec[m_pThread'[o]] = "none"
                /\ exec'[m_pThread'[o]] = "running"
                /\ runOf'[m_pThread'[o]] = o
          /\ (Join(o) /\ m_pThread[o] = NoThread) =>
                UNCHANGED <<exec, m_pThread, runOf, owner, proc>>
          /\ JoinReturn(o) =>
                /\ exec[m_pThread[o]] = "done"
                /\ m_pThread'[o] = NoThread]_vars

\* C16 happens: a ThreadObject that was never copied was started, joined
\* and started again: its first worker is joined and its second one, the
\* handle's, is running.
OneWorkerAtATimeWitness ==
    \E o \in Objs \ copied : \E w, x \in Workers :
        /\ w # x /\ runOf[w] = o /\ runOf[x] = o
        /\ exec[w] = "joined" /\ exec[x] = "running"
        /\ m_pThread[o] = x /\ owner = 0

\* C14: for each of the two classes the constructor has run at most once,
\* not at all before the first call reaches the static and exactly once as
\* soon as any call is about to return or has returned, and every call
\* returns the object made by that one run, however the calls of the
\* threads interleave.
SingleInstance ==
    \A c \in Classes :
        /\ ctorRuns[c] <= 1
        /\ instance[c] = "uninitialised" => ctorRuns[c] = 0
        /\ instance[c] = "initialised" => ctorRuns[c] = 1
        /\ \A t \in Threads :
              caller[t].class = c =>
                  /\ caller[t].pc = "return" => ctorRuns[c] = 1
                  /\ caller[t].pc = "construct" =>
                        instance[c] = "constructing"
                  /\ caller[t].got \in {0, 1}
                  /\ caller[t].got = 1 => ctorRuns[c] = 1

\* C14 happens: two threads are in their first calls of the same class at
\* once: one is constructing the instance, the other waits at the static.
SingleInstanceWitness ==
    \E t, u \in Threads :
        /\ t # u /\ caller[t].class = caller[u].class
        /\ caller[t].pc = "construct" /\ caller[u].pc = "enter"
        /\ ctorRuns[caller[t].class] = 0

\* C17: as long as the client calls only ProducePartA/B/C and GetProduct
\* on the builder (no Reset() of its own, which would leave a product
\* leaked): every GetProduct step hands the client the product the builder
\* had, holding exactly the parts produced since the previous GetProduct or
\* the construction, in call order, and leaves the builder with another
\* product, empty and the only one it is to delete. The product being built
\* holds the parts produced so far, and no step changes the parts of a
\* product the client holds.
ProductAsBuilt ==
    [][(\A q \in Products : heap'[q] # "leaked") =>
       /\ NewBuilder =>
            /\ m_product' # NoProduct
            /\ m_parts'[m_product'] = << >>
       /\ GetProduct =>
            /\ heap'[m_product] = "client"
            /\ m_parts'[m_product] = since
            /\ m_product' \notin {NoProduct, m_product}
            /\ m_parts'[m_product'] = << >>
       /\ m_product' # NoProduct =>
            /\ {q \in Products : heap'[q] = "builder"} = {m_product'}
            /\ m_parts'[m_product'] = since'
       /\ \A q \in Products :
            (heap[q] = "client" /\ heap'[q] = "client") =>
                m_parts'[q] = m_parts[q]]_vars

\* C17 happens: with no Reset() called by the client, the client holds two
\* returned products, a full one and a minimal one, while the builder has
\* already put a part into its next product.
ProductAsBuiltWitness ==
    \E q, x \in Products :
        /\ \A y \in Products : heap[y] # "leaked"
        /\ heap[q] = "client" /\ heap[x] = "client"
        /\ m_parts[q] = <<"PartA1", "PartB1", "PartC1">>
        /\ m_parts[x] = <<"PartA1">>
        /\ m_product \notin {NoProduct, q, x}
        /\ m_parts[m_product] = <<"PartC1">>

\* C18, as stated: constructing a Service from a null pointer throws and
\* leaves no Service, so every Service that exists holds the pointer it was
\* constructed with, which is not null, and every ExecuteService call
\* calls Operation() through that pointer and no other.
NoNullService ==
    [][\A s \in Objs :
          /\ ServiceCtor(s, Null) => service'[s].state = "threw"
          /\ \A d \in Deps : ServiceCtor(s, d) =>
                /\ service'[s].state = "alive"
                /\ service'[s].m_dependency = d
                /\ service'[s].injected = d
          /\ service'[s].state = "alive" =>
                /\ service'[s].m_dependency \in Deps
                /\ service'[s].m_dependency = service'[s].injected
          /\ ExecuteService(s) =>
                /\ invoked' \in Deps
                /\ invoked' = service[s].injected]_vars

\* C18, amended: constructing a Service from a null pointer throws and
\* leaves no Service, and every Service that exists holds a pointer that is
\* not null: the one it was constructed with as long as nothing was
\* assigned to it, and otherwise the one of the last Service or Dependency
\* pointer assigned to it. Every ExecuteService call calls Operation()
\* through the pointer the Service holds, and only an assignment changes
\* the pointer a Service holds.
NonNullDependency ==
    [][\A s \in Objs :
          /\ ServiceCtor(s, Null) => service'[s].state = "threw"
          /\ \A d \in Deps : ServiceCtor(s, d) =>
                /\ service'[s].state = "alive"
                /\ service'[s].m_dependency = d
                /\ service'[s].injected = d
          /\ service'[s].state = "alive" =>
                /\ service'[s].m_dependency \in Deps
                /\ ~service'[s].assigned =>
                      service'[s].m_dependency = service'[s].injected
          /\ \A u \in Objs : AssignService(s, u) =>
                service'[s].m_dependency = service[u].m_dependency
          /\ \A d \in Deps : AssignDependency(s, d) =>
                service'[s].m_dependency = d
          /\ AssignDependency(s, Null) => service'[s] = service[s]
          /\ (/\ service[s].state = "alive" /\ service'[s].state = "alive"
              /\ service'[s].m_dependency # service[s].m_dependency) =>
                \/ \E u \in Objs : AssignService(s, u)
                \/ \E d \in Deps : AssignDependency(s, d)
          /\ ExecuteService(s) =>
                /\ invoked' \in Deps
                /\ invoked' = service[s].m_dependency]_vars

\* C18 happens: the construction of one Service from a null pointer threw,
\* and another Service, constructed with one Dependency and then assigned
\* another that still lives, has executed Operation() on the latter.
NonNullDependencyWitness ==
    \E s, u \in Objs :
        /\ service[s].state = "threw"
        /\ service[u].state = "alive" /\ service[u].assigned
        /\ service[u].m_dependency # service[u].injected
        /\ invoked = service[u].m_dependency
        /\ invoked \in Deps /\ depAlive[invoked]
        /\ proc = "running"
====
